---- MODULE Spec2Model ----
(***************************************************************************)
(* Model of the dashboard StatsCollector head module                       *)
(* (dashboard/modules/stats_collector/stats_collector_head.py).            *)
(*                                                                         *)
(* The module is a set of cooperative asyncio tasks sharing DataSource:    *)
(*   _update_stubs      observer of DataSource.nodes change notifications  *)
(*   _update_node_stats periodic poll of every stub                        *)
(*   _update_actors     bulk fetch with retry, then a pub/sub stream       *)
(*   _update_log_info   pub/sub stream of log batches                      *)
(*   _update_error_info pub/sub stream of error events                     *)
(* An action of the model is the code a task runs between two suspension   *)
(* points (await); code without an await in it is one atomic step.         *)
(***************************************************************************)
EXTENDS Integers, Sequences, FiniteSets, TLC

VARIABLES
    nodes,                \* DataSource.nodes: node_id -> node_info
    pending,              \* ChangeEvents emitted by DataSource.nodes, not yet delivered
    stubs,                \* self._stubs, as CPython keeps it: the entry array of the dict
    stubsErr,             \* what the last call of _update_stubs raised ("none" before any)
    malformedSeen,        \* history: ids a malformed `new` record was delivered for
    nMut,                 \* history: registry mutations so far
    nDup,                 \* history: duplicate deliveries so far
    collect_memory_info,  \* self._collect_memory_info
    pollPc,               \* _update_node_stats: "sleep" | "await"
    iter,                 \* the dict iterator of the running cycle
    cur,                  \* node_id of the request in flight ("none" when there is none)
    issued,               \* history: the requests issued in the current/last cycle, in order
    failed,               \* history: ids whose request failed in the current/last cycle
    cycleEnd,             \* how the last cycle ended: "none" | "running" | "done" | an exception
    stable,               \* history: ids in _stubs and ALIVE at the start of the current/last
                          \* cycle whose stub and record nothing changed during the cycle
    nCycles,              \* history: cycles started
    node_stats,           \* DataSource.node_stats: node_id -> dict
    lastReply,            \* history: node_id -> the last reply received without failure,
                          \* and how many there were
    actorPc,              \* _update_actors: "subscribe" | "fetch" | "backoff" | "live"
    actorChan,            \* messages the actor Receiver holds, oldest first
    actors,               \* DataSource.actors: hex actor id -> dict
    fetchLog,             \* history: the outcome of every GetAllActorInfo call, in order,
                          \* with the number of messages the Receiver held at that time
    actorLog,             \* history: the stream messages _update_actors consumed, in order
    logs,                 \* DataSource.ip_and_pid_to_logs: ip -> pid -> lines
    logChan,              \* messages the log Receiver holds, oldest first
    logLog,               \* history: the messages _update_log_info consumed, in order
    errors,               \* DataSource.ip_and_pid_to_errors: ip -> pid -> records
    errChan,              \* messages the error Receiver holds, oldest first
    errLog,               \* history: the messages _update_error_info consumed, in order
    response              \* what the last call of get_logs / get_errors answered

nodeVars == <<nodes, pending, stubs, stubsErr, malformedSeen, nMut, nDup>>
pollRest == <<collect_memory_info, pollPc, iter, cur, issued, failed, cycleEnd,
              nCycles, node_stats, lastReply>>
pollVars == <<pollRest, stable>>
actorVars == <<actorPc, actorChan, actors, fetchLog, actorLog>>
logVars == <<logs, logChan, logLog>>
errVars == <<errors, errChan, errLog>>
queryVars == <<response>>
vars == <<nodeVars, pollVars, actorVars, logVars, errVars, queryVars>>

----------------------------------------------------------------------------
(* Bounds of the model. *)

MaxMut == 3        \* registry mutations in a run
MaxDup == 1        \* duplicate deliveries in a run
MaxCycles == 2     \* poll cycles in a run

NodeIds == {"n1", "n2"}

----------------------------------------------------------------------------
(* Small helpers on finite maps (Python dicts whose order does not matter  *)
(* are functions whose DOMAIN is the key set).                             *)

EmptyMap == <<>>

MapSet(m, k, v) == [x \in (DOMAIN m) \cup {k} |-> IF x = k THEN v ELSE m[x]]

MapDel(m, k) == [x \in (DOMAIN m) \ {k} |-> m[x]]

----------------------------------------------------------------------------
(* int(node_info["nodeManagerPort"]) on a string of characters.            *)

Digits == <<"0", "1", "2", "3", "4", "5", "6", "7", "8", "9">>

IsDigit(c) == \E i \in 1..Len(Digits) : Digits[i] = c

DigitVal(c) == (CHOOSE i \in 1..Len(Digits) : Digits[i] = c) - 1

RECURSIVE DecimalValue(_)
DecimalValue(s) ==
    IF s = <<>> THEN 0
    ELSE 10 * DecimalValue(SubSeq(s, 1, Len(s) - 1)) + DigitVal(s[Len(s)])

\* int(s): the number, or ValueError for anything but a run of digits.
ParseInt(s) ==
    IF s # <<>> /\ \A i \in 1..Len(s) : IsDigit(s[i])
    THEN [ok |-> TRUE, val |-> DecimalValue(s)]
    ELSE [ok |-> FALSE, val |-> 0]

----------------------------------------------------------------------------
(* self._stubs is a Python dict.  CPython keeps a dict as an array of      *)
(* entries in insertion order; a deleted entry stays in the array as a     *)
(* dummy until the next resize.  The poller iterates this array while      *)
(* _update_stubs changes it, so the array is the state.                    *)

Dummy == [k |-> "<dummy>", v |-> <<>>]

\* USABLE_FRACTION(PyDict_MINSIZE): entries a small dict holds before it is
\* resized (and its dummies dropped).
PyDictUsable == 5

LiveIdx(d) == {i \in 1..Len(d) : d[i] # Dummy}

DictKeys(d) == {d[i].k : i \in LiveIdx(d)}

DictLen(d) == Cardinality(LiveIdx(d))

DictIdx(d, k) == CHOOSE i \in LiveIdx(d) : d[i].k = k

DictGet(d, k) == d[DictIdx(d, k)].v

DictCompact(d) == SelectSeq(d, LAMBDA e : e # Dummy)

\* d[k] = v
DictSet(d, k, v) ==
    IF k \in DictKeys(d) THEN [d EXCEPT ![DictIdx(d, k)].v = v]
    ELSE IF Len(d) >= PyDictUsable THEN Append(DictCompact(d), [k |-> k, v |-> v])
    ELSE Append(d, [k |-> k, v |-> v])

\* d.pop(k), for a key that is there
DictPop(d, k) == [d EXCEPT ![DictIdx(d, k)] = Dummy]

----------------------------------------------------------------------------
(* The node registry (DataSource.nodes) and its change notifications.      *)

NodeStates == {"ALIVE", "DEAD"}
Ports == {<<"8", "0">>, <<"8", "x">>}
Addresses == {"10.0.0.1"}

NodeInfos == [state : NodeStates, nodeManagerAddress : Addresses,
              nodeManagerPort : Ports]

NoSlot == <<>>

\* While a cycle runs, a change to an id's record or stub takes it out of `stable`.
Unstable(ids) == IF pollPc = "await" THEN stable \ ids ELSE stable

Change(old, new) == [old |-> old, new |-> new]

\* DataSource.nodes[n] = info, for an id that is not there
NodeInsert(n, info) ==
    /\ nMut < MaxMut
    /\ n \notin DOMAIN nodes
    /\ nodes' = MapSet(nodes, n, info)
    /\ pending' = Append(pending, Change(NoSlot, <<n, info>>))
    /\ nMut' = nMut + 1
    /\ stable' = Unstable({n})
    /\ UNCHANGED <<stubs, stubsErr, malformedSeen, nDup>>
    /\ UNCHANGED <<pollRest, actorVars, logVars, errVars, queryVars>>

\* DataSource.nodes.pop(n)
NodeRemove(n) ==
    /\ nMut < MaxMut
    /\ n \in DOMAIN nodes
    /\ nodes' = MapDel(nodes, n)
    /\ pending' = Append(pending, Change(<<n, nodes[n]>>, NoSlot))
    /\ nMut' = nMut + 1
    /\ stable' = Unstable({n})
    /\ UNCHANGED <<stubs, stubsErr, malformedSeen, nDup>>
    /\ UNCHANGED <<pollRest, actorVars, logVars, errVars, queryVars>>

\* DataSource.nodes[n] = info, for an id that is there with another record
NodeUpdate(n, info) ==
    /\ nMut < MaxMut
    /\ n \in DOMAIN nodes
    /\ nodes[n] # info
    /\ nodes' = MapSet(nodes, n, info)
    /\ pending' = Append(pending, Change(<<n, nodes[n]>>, <<n, info>>))
    /\ nMut' = nMut + 1
    /\ stable' = Unstable({n})
    /\ UNCHANGED <<stubs, stubsErr, malformedSeen, nDup>>
    /\ UNCHANGED <<pollRest, actorVars, logVars, errVars, queryVars>>

----------------------------------------------------------------------------
(* StatsCollector._update_stubs(change).  No await in it: one step.        *)

\* if change.old: self._stubs.pop(node_id)
StubsPopOld(d, change) ==
    IF change.old = NoSlot THEN [err |-> "none", stubs |-> d]
    ELSE IF change.old[1] \in DictKeys(d)
         THEN [err |-> "none", stubs |-> DictPop(d, change.old[1])]
         ELSE [err |-> "KeyError", stubs |-> d]

\* if change.new: address = "{}:{}".format(addr, int(port)); self._stubs[node_id] = stub
StubsSetNew(d, change) ==
    IF change.new = NoSlot THEN [err |-> "none", stubs |-> d]
    ELSE LET port == ParseInt(change.new[2].nodeManagerPort)
         IN  IF ~port.ok THEN [err |-> "ValueError", stubs |-> d]
             ELSE [err |-> "none",
                   stubs |-> DictSet(d, change.new[1],
                              <<change.new[2].nodeManagerAddress, port.val>>)]

\* The handler without its first statement.
MutUpdateStubsNoPop(d, change) == StubsSetNew(d, change)

\* The whole handler: an exception in the first statement skips the second.
_update_stubs(d, change) ==
    LET popped == StubsPopOld(d, change)
    IN  IF popped.err # "none" THEN popped
        ELSE StubsSetNew(popped.stubs, change)

ChangedIds(change) ==
    (IF change.old = NoSlot THEN {} ELSE {change.old[1]})
        \cup (IF change.new = NoSlot THEN {} ELSE {change.new[1]})

IsMalformed(change) ==
    /\ change.new # NoSlot
    /\ ~ParseInt(change.new[2].nodeManagerPort).ok

\* The handler with a purge of the departed node's stats in it.
MutPurgeDeparted(stats, change) ==
    IF change.old # NoSlot /\ change.new = NoSlot
    THEN [n \in (DOMAIN stats) \ {change.old[1]} |-> stats[n]]
    ELSE stats

\* DataSource.node_stats after the handler: it has no statement on it.
StatsAfterChange(stats, change) == stats

\* The registry delivers the oldest undelivered event to the observer.
\* again = TRUE: the event stays queued and is delivered once more
\* (at-least-once delivery).
Deliver(again) ==
    /\ pending # <<>>
    /\ again => nDup < MaxDup
    /\ LET change == Head(pending)
           res == _update_stubs(stubs, change)
       IN  /\ stubs' = res.stubs
           /\ stubsErr' = res.err
           /\ malformedSeen' = IF IsMalformed(change)
                               THEN malformedSeen \cup {change.new[1]}
                               ELSE malformedSeen
           /\ stable' = Unstable(ChangedIds(change))
           /\ node_stats' = StatsAfterChange(node_stats, change)
    /\ pending' = IF again THEN pending ELSE Tail(pending)
    /\ nDup' = IF again THEN nDup + 1 ELSE nDup
    /\ UNCHANGED <<nodes, nMut>>
    /\ UNCHANGED <<collect_memory_info, pollPc, iter, cur, issued, failed, cycleEnd,
                   nCycles, lastReply>>
    /\ UNCHANGED <<actorVars, logVars, errVars, queryVars>>

----------------------------------------------------------------------------
(* binary_to_hex and the protobuf-to-dict conversions.                     *)

HexDigits == <<"0", "1", "2", "3", "4", "5", "6", "7",
               "8", "9", "a", "b", "c", "d", "e", "f">>

\* binary_to_hex(identifier): two hex digits per byte
RECURSIVE binary_to_hex(_)
binary_to_hex(bytes) ==
    IF bytes = <<>> THEN <<>>
    ELSE <<HexDigits[(Head(bytes) \div 16) + 1], HexDigits[(Head(bytes) % 16) + 1]>>
             \o binary_to_hex(Tail(bytes))

\* A GetNodeStatsReply: every protobuf field has a value, 0 or b"" by default.
NodeStatsReplies == {[numWorkers |-> 1, workerId |-> <<>>],
                     [numWorkers |-> 0, workerId |-> <<171>>]}

\* node_stats_to_dict(message): fields at their default value are left out,
\* the id fields are hex-encoded.
node_stats_to_dict(message) ==
    LET keys == (IF message.numWorkers # 0 THEN {"numWorkers"} ELSE {})
                  \cup (IF message.workerId # <<>> THEN {"workerId"} ELSE {})
    IN  [f \in keys |-> IF f = "workerId" THEN binary_to_hex(message.workerId)
                        ELSE message.numWorkers]

----------------------------------------------------------------------------
(* StatsCollector.set_fetch_memory_info(req)                               *)

ShouldFetchArgs == {"true", "false", "1"}

set_fetch_memory_info(should_fetch) ==
    /\ collect_memory_info' =
           IF should_fetch = "true" THEN TRUE
           ELSE IF should_fetch = "false" THEN FALSE
           ELSE collect_memory_info
    /\ collect_memory_info' # collect_memory_info
    /\ UNCHANGED <<pollPc, iter, cur, issued, failed, cycleEnd, stable,
                   nCycles, node_stats, lastReply>>
    /\ UNCHANGED <<nodeVars, actorVars, logVars, errVars, queryVars>>

----------------------------------------------------------------------------
(* StatsCollector._update_node_stats, under async_loop_forever.            *)
(* The loop body suspends only at `await stub.GetNodeStats(...)`: from the *)
(* start of a cycle, or from the resolution of a call, the code runs       *)
(* without interruption to the next call, to the end of the loop or to an  *)
(* exception that leaves the loop.                                         *)

NoIter == [pos |-> 0, used |-> 0, len |-> 0]

SetMin(S) == CHOOSE x \in S : \A y \in S : x <= y

\* for node_id, stub in self._stubs.items(): ... up to the next suspension.
\* `it` is CPython's dictiterobject: di_pos, di_used, len.  keysCheck is
\* whether the interpreter has the "dictionary keys changed during
\* iteration" check (3.8 and later).
RECURSIVE _update_node_stats(_, _, _)
_update_node_stats(d, it, keysCheck) ==
    IF DictLen(d) # it.used
    THEN [kind |-> "RuntimeError", it |-> it, node |-> "none"]
    ELSE LET rest == {i \in LiveIdx(d) : i >= it.pos}
         IN  IF rest = {}
             THEN [kind |-> "done", it |-> it, node |-> "none"]
             ELSE IF keysCheck /\ it.len = 0
             THEN [kind |-> "RuntimeError", it |-> it, node |-> "none"]
             ELSE LET i == SetMin(rest)
                      n == d[i].k
                      nxt == [pos |-> i + 1, used |-> it.used,
                              len |-> IF it.len > 0 THEN it.len - 1 ELSE 0]
                  IN  IF n \notin DOMAIN nodes
                      THEN [kind |-> "TypeError", it |-> nxt, node |-> "none"]
                      ELSE IF nodes[n].state # "ALIVE"
                      THEN _update_node_stats(d, nxt, keysCheck)
                      ELSE [kind |-> "await", it |-> nxt, node |-> n]

\* The state after the loop ran to r: a request in flight, or the cycle over
\* (async_loop_forever logs an exception and sleeps like after a normal end).
LoopTo(r) ==
    /\ iter' = IF r.kind = "await" THEN r.it ELSE NoIter
    /\ cur' = r.node
    /\ pollPc' = IF r.kind = "await" THEN "await" ELSE "sleep"
    /\ cycleEnd' = IF r.kind = "await" THEN "running" ELSE r.kind

Request(n) == [node_id |-> n, include_memory_info |-> collect_memory_info]

AliveStubs == {n \in DictKeys(stubs) : n \in DOMAIN nodes /\ nodes[n].state = "ALIVE"}

\* The interval elapsed: a cycle starts.
PollStart(keysCheck) ==
    /\ pollPc = "sleep"
    /\ nCycles < MaxCycles
    /\ nCycles' = nCycles + 1
    /\ LET r == _update_node_stats(stubs, [pos |-> 1, used |-> DictLen(stubs),
                                len |-> DictLen(stubs)], keysCheck)
       IN  /\ LoopTo(r)
           /\ issued' = IF r.kind = "await" THEN <<Request(r.node)>> ELSE <<>>
    /\ failed' = {}
    /\ stable' = AliveStubs
    /\ UNCHANGED <<collect_memory_info, node_stats, lastReply>>
    /\ UNCHANGED <<nodeVars, actorVars, logVars, errVars, queryVars>>

MutStoreMerged(old, reply_dict) ==
    [f \in (DOMAIN old) \cup (DOMAIN reply_dict) |->
        IF f \in DOMAIN reply_dict THEN reply_dict[f] ELSE old[f]]

\* DataSource.node_stats[node_id] = reply_dict
StoreReply(old, reply_dict) == reply_dict

\* The call returned a reply and node_stats_to_dict converted it.
PollReplyOk(reply, keysCheck) ==
    /\ pollPc = "await"
    /\ node_stats' = MapSet(node_stats, cur,
                        StoreReply(IF cur \in DOMAIN node_stats
                                   THEN node_stats[cur] ELSE EmptyMap,
                                   node_stats_to_dict(reply)))
    /\ lastReply' = MapSet(lastReply, cur,
                       [reply |-> reply,
                        count |-> IF cur \in DOMAIN lastReply
                                  THEN lastReply[cur].count + 1 ELSE 1])
    /\ LET r == _update_node_stats(stubs, iter, keysCheck)
       IN  /\ LoopTo(r)
           /\ issued' = IF r.kind = "await" THEN Append(issued, Request(r.node))
                        ELSE issued
    /\ UNCHANGED <<collect_memory_info, failed, stable, nCycles>>
    /\ UNCHANGED <<nodeVars, actorVars, logVars, errVars, queryVars>>

PollFailures == {"timeout", "transport", "conversion"}

\* What the except clause does with the loop: log, and go on with the next stub.
AfterFailure(d, it, keysCheck) == _update_node_stats(d, it, keysCheck)

\* The call timed out or raised, or node_stats_to_dict raised.
PollReplyFail(why, keysCheck) ==
    /\ pollPc = "await"
    /\ failed' = failed \cup {cur}
    /\ LET r == AfterFailure(stubs, iter, keysCheck)
       IN  /\ LoopTo(r)
           /\ issued' = IF r.kind = "await" THEN Append(issued, Request(r.node))
                        ELSE issued
    /\ UNCHANGED <<collect_memory_info, stable, nCycles,
                   node_stats, lastReply>>
    /\ UNCHANGED <<nodeVars, actorVars, logVars, errVars, queryVars>>

----------------------------------------------------------------------------
InitNodes ==
    /\ nodes = EmptyMap
    /\ pending = <<>>
    /\ stubs = <<>>
    /\ stubsErr = "none"
    /\ malformedSeen = {}
    /\ nMut = 0
    /\ nDup = 0

InitPoll ==
    /\ collect_memory_info = FALSE
    /\ pollPc = "sleep"
    /\ iter = NoIter
    /\ cur = "none"
    /\ issued = <<>>
    /\ failed = {}
    /\ cycleEnd = "none"
    /\ stable = {}
    /\ nCycles = 0
    /\ node_stats = EmptyMap
    /\ lastReply = EmptyMap

InitActors ==
    /\ actorPc = "subscribe"
    /\ actorChan = <<>>
    /\ actors = EmptyMap
    /\ fetchLog = <<>>
    /\ actorLog = <<>>

InitLogs ==
    /\ logs = EmptyMap
    /\ logChan = <<>>
    /\ logLog = <<>>

InitErrors ==
    /\ errors = EmptyMap
    /\ errChan = <<>>
    /\ errLog = <<>>

\* No request served yet.
NoResponse == [route |-> "none"]

InitQuery == response = NoResponse

Init == InitNodes /\ InitPoll /\ InitActors /\ InitLogs /\ InitErrors /\ InitQuery

NextNodes ==
    \/ \E n \in NodeIds, info \in NodeInfos : NodeInsert(n, info)
    \/ \E n \in NodeIds : NodeRemove(n)
    \/ \E n \in NodeIds, info \in NodeInfos : NodeUpdate(n, info)
    \/ \E again \in BOOLEAN : Deliver(again)
    \/ \E keysCheck \in BOOLEAN : PollStart(keysCheck)
    \/ \E reply \in NodeStatsReplies, keysCheck \in BOOLEAN : PollReplyOk(reply, keysCheck)
    \/ \E why \in PollFailures, keysCheck \in BOOLEAN : PollReplyFail(why, keysCheck)

\* The registry, its observer and the poller.
SpecNodes == Init /\ [][NextNodes]_vars

NextNodesFlag ==
    \/ NextNodes
    \/ \E a \in ShouldFetchArgs : set_fetch_memory_info(a)

\* The same with the /memory/set_fetch route.
SpecNodesFlag == Init /\ [][NextNodesFlag]_vars

NextStubs ==
    \/ \E n \in NodeIds, info \in NodeInfos : NodeInsert(n, info)
    \/ \E n \in NodeIds : NodeRemove(n)
    \/ \E n \in NodeIds, info \in NodeInfos : NodeUpdate(n, info)
    \/ \E again \in BOOLEAN : Deliver(again)

\* The registry and its observer alone.
SpecStubs == Init /\ [][NextStubs]_vars

----------------------------------------------------------------------------
(* Claims about _update_stubs, under SpecStubs.                            *)

DeliverStep == \E again \in BOOLEAN : Deliver(again)

UniqueKeys(d) == \A i, j \in LiveIdx(d) : d[i].k = d[j].k => i = j

\* C1 as stated: once every ChangeEvent is processed, the key set of _stubs
\* equals the set of NodeIds present in the registry, with one handle per id.
C1_HandlesEqualMembership ==
    pending = <<>> => (DictKeys(stubs) = DOMAIN nodes /\ UniqueKeys(stubs))

\* C1, amended: there is never more than one handle per id; once every
\* ChangeEvent is processed every handle belongs to a NodeId present in the
\* registry (none survives a removal), and every present NodeId for which no
\* malformed record was ever delivered has a handle.
C1_HandlesFollowMembership ==
    /\ UniqueKeys(stubs)
    /\ pending = <<>> =>
          /\ DictKeys(stubs) \subseteq DOMAIN nodes
          /\ (DOMAIN nodes) \ malformedSeen \subseteq DictKeys(stubs)

\* C1's case: insertions, a removal and a duplicate delivery were all processed
\* and a handle is in place.
C1_Witness ==
    /\ pending = <<>>
    /\ nDup > 0
    /\ \E i \in 1..Len(stubs) : stubs[i] = Dummy
    /\ DictKeys(stubs) # {}
    /\ DictKeys(stubs) = DOMAIN nodes

\* C9: a ChangeEvent whose `old` names an id without a handle is a no-op for
\* that id: the handler raises nothing for it, the removal leaves the mapping
\* as it is, and the `new` slot of the event is still processed.
C9_RemovalIdempotent ==
    [][(/\ DeliverStep
        /\ Head(pending).old # NoSlot
        /\ Head(pending).old[1] \notin DictKeys(stubs))
       => LET change == Head(pending)
          IN  /\ stubsErr' # "KeyError"
              /\ change.new = NoSlot => stubs' = stubs
              /\ (change.new # NoSlot /\ ~IsMalformed(change))
                    => change.new[1] \in DictKeys(stubs')]_vars

\* C10: a ChangeEvent whose `new` record has a malformed port makes
\* _update_stubs skip the handle and return without raising; there is no
\* handle for that id afterwards and the other handles are as before.
C10_MalformedSkipped ==
    [][(DeliverStep /\ IsMalformed(Head(pending)))
       => LET n == Head(pending).new[1]
          IN  /\ stubsErr' = "none"
              /\ n \notin DictKeys(stubs')
              /\ \A m \in NodeIds \ {n} :
                    /\ m \in DictKeys(stubs') <=> m \in DictKeys(stubs)
                    /\ m \in DictKeys(stubs) => DictGet(stubs', m) = DictGet(stubs, m)]_vars

----------------------------------------------------------------------------
(* Claims about _update_node_stats, under SpecNodes.                       *)

IssuedIds == {issued[i].node_id : i \in 1..Len(issued)}

\* C2: while a call is outstanding, the requests of all the other peers of
\* the cycle have been issued too: no peer waits for another peer's call.
C2_NoHeadOfLineBlocking ==
    pollPc = "await" => stable \subseteq IssuedIds

\* C3: a cycle in which a request failed still polled every peer that had a
\* handle and an ALIVE record throughout, left the failing peer's entry as
\* it was (every entry is still the last successful reply), and ended with
\* the poller ready for its next cycle.
C3_FailureAbsorbed ==
    (pollPc = "sleep" /\ failed # {}) =>
        /\ stable \subseteq IssuedIds
        /\ \A n \in DOMAIN node_stats :
              node_stats[n] = node_stats_to_dict(lastReply[n].reply)

\* C4: the entry stored for a NodeId is exactly the dict of the most recent
\* successful reply for it, with nothing of an earlier reply in it.
C4_StatsReplaced ==
    /\ DOMAIN node_stats = DOMAIN lastReply
    /\ \A n \in DOMAIN node_stats :
          /\ node_stats[n] = node_stats_to_dict(lastReply[n].reply)
          /\ lastReply[n].reply = [numWorkers |-> 1, workerId |-> <<>>]
                => node_stats[n] = [f \in {"numWorkers"} |-> 1]
          /\ lastReply[n].reply = [numWorkers |-> 0, workerId |-> <<171>>]
                => node_stats[n] = [f \in {"workerId"} |-> <<"a", "b">>]

\* C4's case: a NodeId polled successfully twice, and another NodeId with an
\* entry of its own.
C4_Witness ==
    \E n, m \in DOMAIN node_stats :
        /\ n # m
        /\ lastReply[n].count >= 2
        /\ node_stats[n] # node_stats[m]

----------------------------------------------------------------------------
(* StatsCollector._update_actors                                           *)

MaxFetchFail == 2     \* failed GetAllActorInfo calls in a run
MaxActorMsgs == 2     \* messages published on the actor channel in a run

ActorIdBytes == {<<1>>, <<171>>}
ActorStates == {"DEPENDENCIES_UNREADY", "ALIVE"}

\* An ActorTableData message; DEPENDENCIES_UNREADY is the default of `state`.
ActorTableDatas == [actor_id : ActorIdBytes, state : ActorStates]

\* actor_table_data_to_dict(message): including_default_value_fields=True, so
\* every field is in the dict; the id is hex-encoded under its JSON name.
actor_table_data_to_dict(message) ==
    [actorId |-> binary_to_hex(message.actor_id), state |-> message.state]

\* The actor_table_data of a GetAllActorInfoReply: the GCS actor table, one
\* record per actor id.
ActorTables ==
    {<<>>} \cup {<<a>> : a \in ActorTableDatas}
           \cup {<<a, b>> : a \in {x \in ActorTableDatas : x.actor_id = <<1>>},
                            b \in {x \in ActorTableDatas : x.actor_id = <<171>>}}

GetAllActorInfoReplies == [status_code : {0, 1}, actor_table_data : ActorTables]

\* A pub/sub payload: <<a>> is the serialized PubSubMessage of ActorTableData a,
\* <<>> bytes that FromString rejects.
ActorMsgs == {<<a>> : a \in ActorTableDatas} \cup {<<>>}

\* PubSubMessage.FromString(data), ActorTableData.FromString(pubsub_message.data)
DecodeActorMsg(msg) == Len(msg) = 1

\* result = {}; for actor_info in reply.actor_table_data: result[hex id] = dict
RECURSIVE ActorResult(_)
ActorResult(table) ==
    IF table = <<>> THEN EmptyMap
    ELSE LET last == table[Len(table)]
         IN  MapSet(ActorResult(SubSeq(table, 1, Len(table) - 1)),
                    binary_to_hex(last.actor_id), actor_table_data_to_dict(last))

\* await aioredis_client.psubscribe(pattern): from here on the Receiver holds
\* what is published.
ActorSubscribe ==
    /\ actorPc = "subscribe"
    /\ actorPc' = "fetch"
    /\ UNCHANGED <<actorChan, actors, fetchLog, actorLog>>
    /\ UNCHANGED <<nodeVars, pollVars, logVars, errVars, queryVars>>

\* The GCS publishes on the actor channel.
ActorPublish(msg) ==
    /\ actorPc # "subscribe"
    /\ Len(actorChan) + Len(actorLog) < MaxActorMsgs
    /\ actorChan' = Append(actorChan, msg)
    /\ UNCHANGED <<actorPc, actors, fetchLog, actorLog>>
    /\ UNCHANGED <<nodeVars, pollVars, logVars, errVars, queryVars>>

FailedFetches == Cardinality({i \in 1..Len(fetchLog) : ~fetchLog[i].ok})

MutResetOnBadStatus(old, reply) == ActorResult(reply.actor_table_data)

\* The actor map after a reply: DataSource.actors.reset(result) if
\* reply.status.code == 0, untouched otherwise.
ActorsAfterReply(old, reply) ==
    IF reply.status_code = 0 THEN ActorResult(reply.actor_table_data) ELSE old

\* GetAllActorInfo returned a reply.
ActorFetchReply(reply) ==
    /\ actorPc = "fetch"
    /\ reply.status_code # 0 => FailedFetches < MaxFetchFail
    /\ actors' = ActorsAfterReply(actors, reply)
    /\ actorPc' = IF reply.status_code = 0 THEN "live" ELSE "backoff"
    /\ fetchLog' = Append(fetchLog,
                          [ok |-> reply.status_code = 0, raised |-> FALSE,
                           table |-> IF reply.status_code = 0
                                     THEN reply.actor_table_data ELSE <<>>,
                           queued |-> Len(actorChan)])
    /\ UNCHANGED <<actorChan, actorLog>>
    /\ UNCHANGED <<nodeVars, pollVars, logVars, errVars, queryVars>>

\* GetAllActorInfo timed out or raised.
ActorFetchRaise ==
    /\ actorPc = "fetch"
    /\ FailedFetches < MaxFetchFail
    /\ actorPc' = "backoff"
    /\ fetchLog' = Append(fetchLog, [ok |-> FALSE, raised |-> TRUE, table |-> <<>>,
                                     queued |-> Len(actorChan)])
    /\ UNCHANGED <<actorChan, actors, actorLog>>
    /\ UNCHANGED <<nodeVars, pollVars, logVars, errVars, queryVars>>

\* asyncio.sleep(RETRY_GET_ALL_ACTOR_INFO_INTERVAL_SECONDS) returned: while True
ActorRetry ==
    /\ actorPc = "backoff"
    /\ actorPc' = "fetch"
    /\ UNCHANGED <<actorChan, actors, fetchLog, actorLog>>
    /\ UNCHANGED <<nodeVars, pollVars, logVars, errVars, queryVars>>

MutUpsertKeepsExisting(map, actor_info) ==
    IF binary_to_hex(actor_info.actor_id) \in DOMAIN map THEN map
    ELSE MapSet(map, binary_to_hex(actor_info.actor_id),
                actor_table_data_to_dict(actor_info))

\* DataSource.actors[binary_to_hex(actor_info.actor_id)] = dict
ActorUpsert(map, actor_info) ==
    MapSet(map, binary_to_hex(actor_info.actor_id),
           actor_table_data_to_dict(actor_info))

\* The Live loop, running before the bootstrap loop has ended.
MutActorRecvAnyPhase ==
    /\ actorPc # "subscribe"
    /\ actorChan # <<>>
    /\ LET msg == Head(actorChan)
       IN  actors' = IF DecodeActorMsg(msg) THEN ActorUpsert(actors, msg[1])
                     ELSE actors
    /\ actorLog' = Append(actorLog, Head(actorChan))
    /\ actorChan' = Tail(actorChan)
    /\ UNCHANGED <<actorPc, fetchLog>>
    /\ UNCHANGED <<nodeVars, pollVars, logVars, errVars, queryVars>>

\* async for sender, msg in receiver.iter(): one message
ActorRecv ==
    /\ actorPc = "live"
    /\ actorChan # <<>>
    /\ LET msg == Head(actorChan)
       IN  actors' = IF DecodeActorMsg(msg) THEN ActorUpsert(actors, msg[1])
                     ELSE actors
    /\ actorLog' = Append(actorLog, Head(actorChan))
    /\ actorChan' = Tail(actorChan)
    /\ UNCHANGED <<actorPc, fetchLog>>
    /\ UNCHANGED <<nodeVars, pollVars, logVars, errVars, queryVars>>

NextActors ==
    \/ ActorSubscribe
    \/ \E msg \in ActorMsgs : ActorPublish(msg)
    \/ \E reply \in GetAllActorInfoReplies : ActorFetchReply(reply)
    \/ ActorFetchRaise
    \/ ActorRetry
    \/ ActorRecv

SpecActors == Init /\ [][NextActors]_vars

----------------------------------------------------------------------------
(* Claims about _update_actors, under SpecActors.                          *)

\* The successful bulk reply of the run (the last call; the loop breaks on it).
Snapshot == fetchLog[Len(fetchLog)].table

SnapshotIdx(id) == {i \in 1..Len(Snapshot) : Snapshot[i].actor_id = id}

\* Stream events consumed so far that decode to a record of actor `id`.
EventIdx(id) ==
    {i \in 1..Len(actorLog) : Len(actorLog[i]) = 1 /\ actorLog[i][1].actor_id = id}

SetMax(S) == CHOOSE x \in S : \A y \in S : x >= y

HexOf(id) == IF id = <<1>> THEN <<"0", "1">> ELSE <<"a", "b">>

\* C5: in the Live phase the record stored for an actor id is exactly the
\* record of the latest stream event decoded for that id (else the snapshot's
\* record, else none): an event replaces the record of its id and no other.
C5_ActorUpsert ==
    actorPc = "live" =>
        \A id \in ActorIdBytes :
            IF EventIdx(id) # {}
            THEN /\ HexOf(id) \in DOMAIN actors
                 /\ actors[HexOf(id)] =
                       [actorId |-> HexOf(id),
                        state |-> actorLog[SetMax(EventIdx(id))][1].state]
            ELSE IF SnapshotIdx(id) # {}
            THEN /\ HexOf(id) \in DOMAIN actors
                 /\ actors[HexOf(id)] =
                       [actorId |-> HexOf(id),
                        state |-> Snapshot[SetMax(SnapshotIdx(id))].state]
            ELSE HexOf(id) \notin DOMAIN actors

\* C5's case: the snapshot held A and B, a stream event for A with another
\* state was applied, and B's record is still the snapshot's.
C5_Witness ==
    /\ actorPc = "live"
    /\ Len(Snapshot) = 2
    /\ EventIdx(<<171>>) # {}
    /\ EventIdx(<<1>>) = {}
    /\ actors[<<"a", "b">>].state = "ALIVE"
    /\ \E i \in SnapshotIdx(<<171>>) : Snapshot[i].state = "DEPENDENCIES_UNREADY"

\* C6: a failed fetch (bad status or raised) leaves the actor map as it was
\* and is followed by a retry, however many failed before; the first
\* successful reply makes the map exactly that reply's records and the
\* synchronizer Live.
C6_RetryNeverExhausts ==
    /\ actorPc \in {"subscribe", "fetch", "backoff"} =>
          /\ actors = EmptyMap
          /\ \A i \in 1..Len(fetchLog) : ~fetchLog[i].ok
    /\ actorPc = "backoff" => ENABLED ActorRetry
    /\ actorPc = "fetch" => \A reply \in GetAllActorInfoReplies :
                               reply.status_code = 0 => ENABLED ActorFetchReply(reply)
    /\ actorPc = "live" =>
          /\ fetchLog # <<>>
          /\ \A i \in 1..Len(fetchLog) : fetchLog[i].ok <=> i = Len(fetchLog)
          /\ actorLog = <<>> =>
                /\ DOMAIN actors = {HexOf(Snapshot[i].actor_id) : i \in 1..Len(Snapshot)}
                /\ \A i \in 1..Len(Snapshot) :
                      actors[HexOf(Snapshot[i].actor_id)] =
                          [actorId |-> HexOf(Snapshot[i].actor_id),
                           state |-> Snapshot[i].state]

\* C6's case: the fetch failed with a bad status and with a raised error, then
\* succeeded with two records.
C6_Witness ==
    /\ actorPc = "live"
    /\ actorLog = <<>>
    /\ Len(fetchLog) = 3
    /\ fetchLog[1].raised # fetchLog[2].raised
    /\ Len(Snapshot) = 2

----------------------------------------------------------------------------
(* StatsCollector._update_log_info                                         *)

MaxLogMsgs == 3       \* messages published on the log channel in a run

\* str(n) for n >= 0
RECURSIVE IntToStr(_)
IntToStr(n) ==
    IF n < 10 THEN <<Digits[n + 1]>>
    ELSE IntToStr(n \div 10) \o <<Digits[(n % 10) + 1]>>

LogIps == {"10.0.0.5", "10.0.0.6"}
LogPids == {7, 12}
LogLines == {<<"a", "b">>, <<"c">>, <<>>}

\* What json.loads(ray.utils.decode(msg)) gives for a well-formed batch ...
LogBatches == [ip : LogIps, pid : LogPids, lines : LogLines]

\* ... and for a JSON object without "lines".
LogBatchesNoLines == [ip : {"10.0.0.5"}, pid : {7}]

\* A message of the log channel: <<data>> is JSON text of the object data,
\* <<>> text that json.loads rejects.
LogMsgs == {<<d>> : d \in LogBatches \cup LogBatchesNoLines} \cup {<<>>}

MutLogLinesReplace(logs_for_pid, lines) == lines

\* logs_for_pid.extend(data["lines"])
LogExtend(logs_for_pid, lines) == logs_for_pid \o lines

\* The loop body writing back a host map that holds the new pid only.
MutLogFreshHostMap(store, msg) ==
    IF Len(msg) # 1 THEN store
    ELSE LET data == msg[1]
         IN  IF ~({"ip", "pid", "lines"} \subseteq DOMAIN data) THEN store
             ELSE LET ip == data.ip
                      pid == IntToStr(data.pid)
                      logs_for_ip == IF ip \in DOMAIN store THEN store[ip] ELSE EmptyMap
                      logs_for_pid == IF pid \in DOMAIN logs_for_ip
                                      THEN logs_for_ip[pid] ELSE <<>>
                  IN  MapSet(store, ip,
                             MapSet(EmptyMap, pid, LogExtend(logs_for_pid, data.lines)))

\* The loop body with the write-back ahead of the read of data["lines"].
MutLogWriteBeforeLines(store, msg) ==
    IF Len(msg) # 1 THEN store
    ELSE LET data == msg[1]
         IN  IF ~({"ip", "pid"} \subseteq DOMAIN data) THEN store
             ELSE LET ip == data.ip
                      pid == IntToStr(data.pid)
                      logs_for_ip == IF ip \in DOMAIN store THEN store[ip] ELSE EmptyMap
                      logs_for_pid == IF pid \in DOMAIN logs_for_ip
                                      THEN logs_for_ip[pid] ELSE <<>>
                  IN  MapSet(store, ip,
                             MapSet(logs_for_ip, pid,
                                    IF "lines" \notin DOMAIN data THEN logs_for_pid
                                    ELSE LogExtend(logs_for_pid, data.lines)))

\* The body of the try for one message; an exception leaves the store as it is.
_update_log_info(store, msg) ==
    IF Len(msg) # 1 THEN store                                \* json.loads raises
    ELSE LET data == msg[1]
         IN  IF ~({"ip", "pid"} \subseteq DOMAIN data) THEN store   \* KeyError
             ELSE LET ip == data.ip
                      pid == IntToStr(data.pid)
                      logs_for_ip == IF ip \in DOMAIN store THEN store[ip] ELSE EmptyMap
                      logs_for_pid == IF pid \in DOMAIN logs_for_ip
                                      THEN logs_for_ip[pid] ELSE <<>>
                  IN  IF "lines" \notin DOMAIN data THEN store      \* KeyError
                      ELSE MapSet(store, ip,
                                  MapSet(logs_for_ip, pid,
                                         LogExtend(logs_for_pid, data.lines)))

\* A message is published on the log channel; the Receiver holds it.
LogPublish(msg) ==
    /\ Len(logChan) + Len(logLog) < MaxLogMsgs
    /\ logChan' = Append(logChan, msg)
    /\ UNCHANGED <<logs, logLog>>
    /\ UNCHANGED <<nodeVars, pollVars, actorVars, errVars, queryVars>>

\* The log relay started only once the actor synchronizer is Live (the tasks
\* of run awaited one after the other).
MutLogRecvWhenLive ==
    /\ actorPc = "live"
    /\ logChan # <<>>
    /\ logs' = _update_log_info(logs, Head(logChan))
    /\ logLog' = Append(logLog, Head(logChan))
    /\ logChan' = Tail(logChan)
    /\ UNCHANGED <<nodeVars, pollVars, actorVars, errVars, queryVars>>

\* async for sender, msg in receiver.iter(): one message
LogRecv ==
    /\ logChan # <<>>
    /\ logs' = _update_log_info(logs, Head(logChan))
    /\ logLog' = Append(logLog, Head(logChan))
    /\ logChan' = Tail(logChan)
    /\ UNCHANGED <<nodeVars, pollVars, actorVars, errVars, queryVars>>

NextLogs ==
    \/ \E msg \in LogMsgs : LogPublish(msg)
    \/ LogRecv

SpecLogs == Init /\ [][NextLogs]_vars

----------------------------------------------------------------------------
(* Claims about _update_log_info, under SpecLogs.                          *)

PidText(pid) == IF pid = 7 THEN <<"7">> ELSE <<"1", "2">>

IsBatchFor(msg, ip, pid) ==
    /\ Len(msg) = 1
    /\ DOMAIN msg[1] = {"ip", "pid", "lines"}
    /\ msg[1].ip = ip
    /\ msg[1].pid = pid

\* The lines of the batches for (ip, pid) among the first n messages, in order.
RECURSIVE LinesDelivered(_, _, _)
LinesDelivered(n, ip, pid) ==
    IF n = 0 THEN <<>>
    ELSE LinesDelivered(n - 1, ip, pid)
            \o (IF IsBatchFor(logLog[n], ip, pid) THEN logLog[n][1].lines ELSE <<>>)

\* C7: what is stored under (host, pid) is the concatenation, in delivery
\* order, of the lines of the decoded batches for that (host, pid), and there
\* is an entry for exactly the (host, pid) a batch was decoded for.
C7_LogAppendOrder ==
    \A ip \in LogIps, pid \in LogPids :
        IF \E n \in 1..Len(logLog) : IsBatchFor(logLog[n], ip, pid)
        THEN /\ ip \in DOMAIN logs
             /\ PidText(pid) \in DOMAIN logs[ip]
             /\ logs[ip][PidText(pid)] = LinesDelivered(Len(logLog), ip, pid)
        ELSE ip \in DOMAIN logs => PidText(pid) \notin DOMAIN logs[ip]

\* C7's case: batches ["a","b"] and ["c"] for one (host, pid), with a batch
\* for another pid of the host between or around them.
C7_Witness ==
    /\ Len(logLog) = 3
    /\ "10.0.0.5" \in DOMAIN logs
    /\ DOMAIN logs["10.0.0.5"] = {<<"7">>, <<"1", "2">>}
    /\ logs["10.0.0.5"][<<"1", "2">>] = <<"a", "b", "c">>

----------------------------------------------------------------------------
(* StatsCollector._update_error_info                                       *)
(* A message text is a sequence of characters.  A run of characters that   *)
(* are no digit and none of ESC [ m ( ) , = and line feed, is written as   *)
(* one element ("Failure "): the two regular expressions treat such a run  *)
(* like a single ordinary character.                                       *)

MaxErrMsgs == 2       \* messages published on the error channels in a run

ESC == "ESC"
LF == "\n"

StartsWith(s, i, lit) ==
    /\ i + Len(lit) - 1 <= Len(s)
    /\ SubSeq(s, i, i + Len(lit) - 1) = lit

\* The end of the run of digits that starts at i: the first index from i on
\* that holds no digit.
RECURSIVE DigitsEnd(_, _)
DigitsEnd(s, i) ==
    IF i > Len(s) \/ ~IsDigit(s[i]) THEN i ELSE DigitsEnd(s, i + 1)

\* message = re.sub(r"\x1b\[\d+m", "", message), from index i on
RECURSIVE StripFrom(_, _)
StripFrom(s, i) ==
    IF i > Len(s) THEN <<>>
    ELSE LET j == DigitsEnd(s, i + 2)
         IN  IF /\ StartsWith(s, i, <<ESC, "[">>)
                /\ j > i + 2
                /\ j <= Len(s)
                /\ s[j] = "m"
             THEN StripFrom(s, j + 1)
             ELSE <<s[i]>> \o StripFrom(s, i + 1)

StripColors(s) == StripFrom(s, 1)

PidOpen == <<"(", "p", "i", "d", "=">>
IpOpen == <<",", " ", "i", "p", "=">>

RECURSIVE MutIpEndAcrossLines(_, _)
MutIpEndAcrossLines(s, i) ==
    IF i > Len(s) \/ s[i] = ")" THEN i ELSE MutIpEndAcrossLines(s, i + 1)

\* Where (.*?)\) stops when the group starts at i: `.` matches any character
\* but a line feed, so the scan ends at the first ")" or line feed.
RECURSIVE IpEnd(_, _)
IpEnd(s, i) ==
    IF i > Len(s) \/ s[i] = ")" \/ s[i] = LF THEN i ELSE IpEnd(s, i + 1)

\* r"\(pid=(\d+), ip=(.*?)\)" matched at index i
MatchAt(s, i) ==
    LET a == i + Len(PidOpen)
        b == DigitsEnd(s, a)
        c == b + Len(IpOpen)
        e == IpEnd(s, c)
    IN  IF /\ StartsWith(s, i, PidOpen)
           /\ b > a
           /\ StartsWith(s, b, IpOpen)
           /\ e <= Len(s)
           /\ s[e] = ")"
        THEN [ok |-> TRUE, pid |-> SubSeq(s, a, b - 1), ip |-> SubSeq(s, c, e - 1)]
        ELSE [ok |-> FALSE, pid |-> <<>>, ip |-> <<>>]

\* re.search(...): the match at the leftmost index that has one
RECURSIVE SearchFrom(_, _)
SearchFrom(s, i) ==
    IF i > Len(s) THEN [ok |-> FALSE, pid |-> <<>>, ip |-> <<>>]
    ELSE IF MatchAt(s, i).ok THEN MatchAt(s, i)
    ELSE SearchFrom(s, i + 1)

Search(s) == SearchFrom(s, 1)

Color(digits) == <<ESC, "[">> \o digits \o <<"m">>

PidIp(pid, ip) == PidOpen \o pid \o IpOpen \o ip \o <<")">>

\* The example of the specification, and texts around every branch of the
\* two regular expressions.
ErrorMessages ==
    { Color(<<"3", "1">>) \o <<"Failure ">> \o PidIp(<<"1", "2", "3">>, <<"10.0.0.5">>)
          \o <<" happened">> \o Color(<<"0">>),
      <<"no worker">>,
      Color(<<"3", "1">>) \o <<"no worker">>,
      PidIp(<<"1">> \o Color(<<"0">>) \o <<"2">>, <<"h">>),
      PidIp(<<>>, <<"h">>),
      PidIp(<<"x">>, <<"h">>),
      PidIp(<<"7">>, <<>>),
      PidIp(<<"7">>, <<"a", LF, "b">>),
      PidOpen \o <<"7">> \o IpOpen \o <<"a", LF>> \o PidIp(<<"1", "2">>, <<"h">>),
      PidOpen \o <<"7">> \o IpOpen \o <<"h">>,
      PidIp(<<"7">>, <<"h">>) \o <<" ">> \o PidIp(<<"1", "2">>, <<"g">>),
      PidOpen \o <<"7">> \o PidIp(<<"1", "2">>, <<"g">>),
      <<ESC, "[", "1", ";", "3", "1", "m">> \o PidIp(<<"7">>, <<"h">>),
      <<ESC, "[", "m">> \o PidIp(<<"7">>, <<"h">>) \o <<LF, " at f()">> }

\* An ErrorTableData
ErrorTableDatas == [error_message : ErrorMessages, timestamp : {1, 2},
                    type : {"worker_died"}]

\* A message of the error channel: <<e>> is the serialized PubSubMessage of
\* ErrorTableData e, <<>> bytes that FromString rejects.
ErrorMsgs == {<<e>> : e \in ErrorTableDatas} \cup {<<>>}

\* The two regular expressions on every message text of the model, computed
\* once: re.sub(...) and re.search(...) of the result.
Stripped == [m \in ErrorMessages |-> StripColors(m)]

Matched == [m \in ErrorMessages |-> Search(StripColors(m))]

\* The body of the try for one message; an exception leaves the store as it is.
_update_error_info(store, msg) ==
    IF Len(msg) # 1 THEN store                                \* FromString raises
    ELSE LET error_data == msg[1]
             message == Stripped[error_data.error_message]
             match == Matched[error_data.error_message]
         IN  IF ~match.ok THEN store
             ELSE LET pid == match.pid
                      ip == match.ip
                      errs_for_ip == IF ip \in DOMAIN store THEN store[ip] ELSE EmptyMap
                      pid_errors == IF pid \in DOMAIN errs_for_ip
                                    THEN errs_for_ip[pid] ELSE <<>>
                  IN  MapSet(store, ip,
                             MapSet(errs_for_ip, pid,
                                    Append(pid_errors,
                                           [message |-> message,
                                            timestamp |-> error_data.timestamp,
                                            type |-> error_data.type])))

\* A message is published on the error channels; the Receiver holds it.
ErrorPublish(msg) ==
    /\ Len(errChan) + Len(errLog) < MaxErrMsgs
    /\ errChan' = Append(errChan, msg)
    /\ UNCHANGED <<errors, errLog>>
    /\ UNCHANGED <<nodeVars, pollVars, actorVars, logVars, queryVars>>

\* async for sender, msg in receiver.iter(): one message
ErrorRecv ==
    /\ errChan # <<>>
    /\ errors' = _update_error_info(errors, Head(errChan))
    /\ errLog' = Append(errLog, Head(errChan))
    /\ errChan' = Tail(errChan)
    /\ UNCHANGED <<nodeVars, pollVars, actorVars, logVars, queryVars>>

NextErrors ==
    \/ \E msg \in ErrorMsgs : ErrorPublish(msg)
    \/ ErrorRecv

SpecErrors == Init /\ [][NextErrors]_vars

----------------------------------------------------------------------------
(* Claims about _update_error_info, under SpecErrors.                      *)

\* s holds, from index i, "(pid=" n digits ", ip=" m characters other than
\* ")" and then ")"; with oneLine, none of the m characters is a line feed.
FormAt(s, i, n, m, oneLine) ==
    /\ i + 10 + n + m <= Len(s)
    /\ SubSeq(s, i, i + 4) = <<"(", "p", "i", "d", "=">>
    /\ \A k \in (i + 5)..(i + 4 + n) : s[k] \in {"0", "1", "2", "3", "4",
                                                  "5", "6", "7", "8", "9"}
    /\ SubSeq(s, i + 5 + n, i + 9 + n) = <<",", " ", "i", "p", "=">>
    /\ \A k \in (i + 10 + n)..(i + 9 + n + m) :
          s[k] # ")" /\ (oneLine => s[k] # "\n")
    /\ s[i + 10 + n + m] = ")"

FormStarts(s, oneLine) ==
    {i \in 1..Len(s) :
        /\ i + 4 <= Len(s)
        /\ s[i] = "("
        /\ \E n \in 1..Len(s), m \in 0..Len(s) : FormAt(s, i, n, m, oneLine)}

\* <<ip, pid>> of the first such substring
FirstKey(s, oneLine) ==
    LET i == SetMin(FormStarts(s, oneLine))
        n == CHOOSE n \in 1..Len(s) : \E m \in 0..Len(s) : FormAt(s, i, n, m, oneLine)
        m == CHOOSE m \in 0..Len(s) : FormAt(s, i, n, m, oneLine)
    IN  <<SubSeq(s, i + 10 + n, i + 9 + n + m), SubSeq(s, i + 5, i + 4 + n)>>

ErrorKeys(store) ==
    UNION {{<<ip, pid>> : pid \in DOMAIN store[ip]} : ip \in DOMAIN store}

\* The step of the relay that consumed one event did what the claim says,
\* for the given reading of "<text up to ')'>".
ErrorStepAsClaimed(oneLine) ==
    Len(errLog') = Len(errLog) + 1 =>
        LET msg == errLog'[Len(errLog')]
        IN  IF Len(msg) # 1 THEN errors' = errors
            ELSE \A text \in {StripColors(msg[1].error_message)} :
                     IF FormStarts(text, oneLine) = {} THEN errors' = errors
                     ELSE \A key \in {FirstKey(text, oneLine)} :
                          LET before == IF key \in ErrorKeys(errors)
                                        THEN errors[key[1]][key[2]] ELSE <<>>
                          IN  /\ ErrorKeys(errors') = ErrorKeys(errors) \cup {key}
                              /\ errors'[key[1]][key[2]] =
                                    Append(before, [message |-> text,
                                                    timestamp |-> msg[1].timestamp,
                                                    type |-> msg[1].type])
                              /\ \A other \in ErrorKeys(errors) \ {key} :
                                    errors'[other[1]][other[2]] = errors[other[1]][other[2]]

SpecExample ==
    Color(<<"3", "1">>) \o <<"Failure ">> \o PidIp(<<"1", "2", "3">>, <<"10.0.0.5">>)
        \o <<" happened">> \o Color(<<"0">>)

\* C8 as stated: an event whose color-stripped message contains
\* "(pid=<digits>, ip=<text up to ')'>)" appends exactly one record
\* {message stripped, timestamp, type} under (ip, pid) of the first such
\* substring; any other event leaves the error store unchanged.
C8_ErrorExtraction == [][ErrorStepAsClaimed(FALSE)]_vars

\* C8, amended: the same, for the substrings whose <text up to ')'> holds no
\* line feed; an event without such a substring leaves the store unchanged.
\* The spec's example is stored under ("10.0.0.5", "123") without its colors.
C8_ErrorExtractionOneLine ==
    [][/\ ErrorStepAsClaimed(TRUE)
       /\ (Len(errLog') = Len(errLog) + 1 /\ Len(errLog'[Len(errLog')]) = 1
             /\ errLog'[Len(errLog')][1].error_message = SpecExample)
          => LET stored == errors'[<<"10.0.0.5">>][<<"1", "2", "3">>]
             IN  stored[Len(stored)].message =
                    <<"Failure ">> \o PidIp(<<"1", "2", "3">>, <<"10.0.0.5">>)
                        \o <<" happened">>]_vars

\* C8's case: an event without the substring left the store empty, then the
\* spec's example was stored under its key, colors stripped.
C8_Witness ==
    /\ Len(errLog) = 2
    /\ Len(errLog[1]) = 1
    /\ errLog[1][1].error_message = <<"no worker">>
    /\ errLog[2] = <<[error_message |-> SpecExample, timestamp |-> 2,
                      type |-> "worker_died"]>>
    /\ ErrorKeys(errors) = {<<(<<"10.0.0.5">>), <<"1", "2", "3">>>>}
    /\ errors[<<"10.0.0.5">>][<<"1", "2", "3">>] =
          <<[message |-> <<"Failure ">> \o PidIp(<<"1", "2", "3">>, <<"10.0.0.5">>)
                            \o <<" happened">>,
             timestamp |-> 2, type |-> "worker_died"]>>

----------------------------------------------------------------------------
(* StatsCollector.get_logs and StatsCollector.get_errors                   *)

\* req.query.get("pid") when the request has no pid: None
NoPid == <<>>

\* DataSource.ip_and_pid_to_logs[ip]; node_logs.get(pid, []) if pid else node_logs
get_logs(store, ip, pid) ==
    IF ip \notin DOMAIN store THEN [raised |-> "KeyError"]
    ELSE LET node_logs == store[ip]
         IN  [raised |-> "none", success |-> TRUE,
              logs |-> IF pid # NoPid
                       THEN (IF pid \in DOMAIN node_logs THEN node_logs[pid] ELSE <<>>)
                       ELSE node_logs]

\* DataSource.ip_and_pid_to_errors[ip]; node_errors.get(pid, []) if pid else node_errors
get_errors(store, ip, pid) ==
    IF ip \notin DOMAIN store THEN [raised |-> "KeyError"]
    ELSE LET node_errors == store[ip]
         IN  [raised |-> "none", success |-> TRUE,
              errors |-> IF pid # NoPid
                         THEN (IF pid \in DOMAIN node_errors THEN node_errors[pid] ELSE <<>>)
                         ELSE node_errors]

\* GET /node_logs?ip=..&pid=..
GetLogs(ip, pid) ==
    /\ response' = [route |-> "/node_logs", ip |-> ip, pid |-> pid,
                    result |-> get_logs(logs, ip, pid)]
    /\ UNCHANGED <<nodeVars, pollVars, actorVars, logVars, errVars>>

\* GET /node_errors?ip=..&pid=..
GetErrors(ip, pid) ==
    /\ response' = [route |-> "/node_errors", ip |-> ip, pid |-> pid,
                    result |-> get_errors(errors, ip, pid)]
    /\ UNCHANGED <<nodeVars, pollVars, actorVars, logVars, errVars>>

----------------------------------------------------------------------------
(* StatsCollector.run: the four tasks of asyncio.gather, the observer of   *)
(* the node registry and the two routes, interleaved at their suspension   *)
(* points.  A run takes its inputs from a few values of each kind and is   *)
(* bounded by the number of events that reach the collector from outside.  *)

MaxRun == 4           \* events from outside the collector in a run

RunSize ==
    nMut + nDup + nCycles + Len(fetchLog)
        + Len(actorChan) + Len(actorLog)
        + Len(logChan) + Len(logLog)
        + Len(errChan) + Len(errLog)

\* A successful bulk reply with one actor, and the stream messages: an event
\* for that actor and bytes that do not decode.
StreamActorReplies ==
    {[status_code |-> 0,
      actor_table_data |-> <<[actor_id |-> <<171>>, state |-> "DEPENDENCIES_UNREADY"]>>]}

StreamActorMsgs == {<<[actor_id |-> <<171>>, state |-> "ALIVE"]>>, <<>>}

RunLogMsgs ==
    {<<[ip |-> "10.0.0.5", pid |-> 7, lines |-> <<"a", "b">>]>>,
     <<[ip |-> "10.0.0.5", pid |-> 7, lines |-> <<"c">>]>>,
     <<[ip |-> "10.0.0.5", pid |-> 12, lines |-> <<"c">>]>>,
     <<>>}

RunErrorMsgs ==
    {<<[error_message |-> SpecExample, timestamp |-> 1, type |-> "worker_died"]>>,
     <<[error_message |-> <<"no worker">>, timestamp |-> 2, type |-> "worker_died"]>>,
     <<>>}

\* Query strings of the two routes: a host with stored data and one without,
\* no pid, a pid with stored data and one without.
QueryLogIps == {"10.0.0.5", "10.0.0.9"}
QueryLogPids == {NoPid, <<"7">>, <<"9">>}
QueryErrorIps == {<<"10.0.0.5">>, <<"10.0.0.9">>}
QueryErrorPids == {NoPid, <<"1", "2", "3">>, <<"9">>}

\* One record of the registry, one stats reply, and the replies of the bulk
\* fetch: a table of one actor, and a bad status.
RunNodeInfos ==
    {[state |-> "ALIVE", nodeManagerAddress |-> "10.0.0.1", nodeManagerPort |-> <<"8", "0">>]}

RunNodeStatsReplies == {[numWorkers |-> 1, workerId |-> <<>>]}

RunActorReplies ==
    StreamActorReplies \cup {[status_code |-> 1, actor_table_data |-> <<>>]}

\* A GetNodeStats call in flight resolves: with a reply, with an error or by
\* its timeout.
PollStep ==
    \/ \E reply \in RunNodeStatsReplies, keysCheck \in BOOLEAN : PollReplyOk(reply, keysCheck)
    \/ \E why \in PollFailures, keysCheck \in BOOLEAN : PollReplyFail(why, keysCheck)

NextRun ==
    \/ RunSize < MaxRun /\ \E n \in NodeIds, info \in RunNodeInfos : NodeInsert(n, info)
    \/ RunSize < MaxRun /\ \E n \in NodeIds : NodeRemove(n)
    \/ Deliver(FALSE)
    \/ RunSize < MaxRun /\ \E keysCheck \in BOOLEAN : PollStart(keysCheck)
    \/ PollStep
    \/ ActorSubscribe
    \/ RunSize < MaxRun /\ \E reply \in RunActorReplies : ActorFetchReply(reply)
    \/ RunSize < MaxRun /\ ActorFetchRaise
    \/ ActorRetry
    \/ RunSize < MaxRun /\ \E msg \in StreamActorMsgs : ActorPublish(msg)
    \/ ActorRecv
    \/ RunSize < MaxRun /\ \E msg \in RunLogMsgs : LogPublish(msg)
    \/ LogRecv
    \/ RunSize < MaxRun /\ \E msg \in RunErrorMsgs : ErrorPublish(msg)
    \/ ErrorRecv

SpecRun == Init /\ [][NextRun]_vars

NextRunQuery ==
    \/ NextRun
    \/ \E ip \in QueryLogIps, pid \in QueryLogPids : GetLogs(ip, pid)
    \/ \E ip \in QueryErrorIps, pid \in QueryErrorPids : GetErrors(ip, pid)

\* The same with the /node_logs and /node_errors routes.
SpecRunQuery == Init /\ [][NextRunQuery]_vars

\* The scheduling of the event loop: a task that can take its next step is
\* run, and a call with a timeout resolves.  Nothing is assumed of what
\* arrives from outside nor of the bulk fetch of the actor table.
SpecRunFair ==
    /\ Init
    /\ [][NextRun]_vars
    /\ WF_vars(PollStep)
    /\ WF_vars(LogRecv)
    /\ WF_vars(ErrorRecv)

----------------------------------------------------------------------------
(* Claims about the routes, under SpecRunQuery.                            *)

\* C11: get_logs and get_errors answer every host and pid with a successful
\* result; they raise for none, whatever the stores hold.
C11_AccessorsNeverFail ==
    response # NoResponse =>
        /\ response.result.raised = "none"
        /\ response.result.success

----------------------------------------------------------------------------
(* Claims about a poll cycle and the changes of the mapping and of the     *)
(* registry around it, under SpecNodes.                                    *)

\* C12: a cycle during which _update_stubs changed the mapping is not
\* aborted: it ends normally, with a request issued for every peer that had
\* a handle and an ALIVE record from its start to its end.  (Cycles that met
\* a handle without a node record are left to C13.)
C12_CycleSnapshot ==
    (pollPc = "sleep" /\ cycleEnd \notin {"none", "TypeError"}) =>
        /\ cycleEnd = "done"
        /\ stable \subseteq IssuedIds

\* C13: a cycle that meets a handle whose NodeId is no longer in the node
\* registry skips that peer: the cycle does not fail, and every peer with a
\* handle and an ALIVE record throughout is still polled.  (Cycles ended by
\* the dict iterator are left to C12.)
C13_MissingRecordSkipped ==
    (pollPc = "sleep" /\ cycleEnd \notin {"none", "RuntimeError"}) =>
        /\ cycleEnd = "done"
        /\ stable \subseteq IssuedIds

----------------------------------------------------------------------------
(* Claims about the bootstrap and the stream together, under SpecActors.   *)

\* The actor map after the first n stream messages, each decoded event
\* replacing the record of its id, starting from the snapshot.
RECURSIVE AfterEvents(_)
AfterEvents(n) ==
    IF n = 0
    THEN [h \in {HexOf(Snapshot[i].actor_id) : i \in 1..Len(Snapshot)} |->
             [actorId |-> h,
              state |-> Snapshot[SetMax({i \in 1..Len(Snapshot) :
                                            HexOf(Snapshot[i].actor_id) = h})].state]]
    ELSE IF Len(actorLog[n]) # 1 THEN AfterEvents(n - 1)
    ELSE MapSet(AfterEvents(n - 1), HexOf(actorLog[n][1].actor_id),
                [actorId |-> HexOf(actorLog[n][1].actor_id),
                 state |-> actorLog[n][1].state])

\* The stream as delivered on the subscription: consumed, then still held.
Delivered == actorLog \o actorChan

IsPrefix(s, t) == Len(s) <= Len(t) /\ SubSeq(t, 1, Len(s)) = s

\* C14: no bulk fetch is issued and no event is held before the subscription
\* is established; no event is applied before the snapshot has replaced the
\* map; no delivered event is ever dropped; and in the Live phase the map is
\* the snapshot with every consumed event applied on top of it in delivery
\* order, the events delivered during the bootstrap included.
C14_NoGapSnapshotStream ==
    /\ [](/\ actorPc = "subscribe" => (fetchLog = <<>> /\ Delivered = <<>>)
          /\ actorPc # "live" => actorLog = <<>>
          /\ actorPc = "live" => actors = AfterEvents(Len(actorLog)))
    /\ [][/\ IsPrefix(Delivered, Delivered')
          /\ IsPrefix(actorLog, actorLog')]_vars

\* C14's case: two events arrived while the bootstrap was backing off after a
\* failed fetch; the snapshot was then stored and both events applied after
\* it, the later one replacing a record of the snapshot.
C14_Witness ==
    /\ actorPc = "live"
    /\ Len(fetchLog) >= 2
    /\ fetchLog[1].queued >= 1
    /\ fetchLog[Len(fetchLog)].queued = 2
    /\ Len(actorLog) = 2
    /\ Len(Snapshot) = 2
    /\ actors # AfterEvents(0)

----------------------------------------------------------------------------
(* The three stream consumers side by side, each on a few messages of its  *)
(* channel, well-formed and not.                                           *)

StreamLogMsgs ==
    {<<[ip |-> "10.0.0.5", pid |-> 7, lines |-> <<"a", "b">>]>>,
     <<[ip |-> "10.0.0.5", pid |-> 7]>>,
     <<>>}

NextStreams ==
    \/ ActorSubscribe
    \/ \E reply \in StreamActorReplies : ActorFetchReply(reply)
    \/ \E msg \in StreamActorMsgs : ActorPublish(msg)
    \/ ActorRecv
    \/ \E msg \in StreamLogMsgs : LogPublish(msg)
    \/ LogRecv
    \/ \E msg \in RunErrorMsgs : ErrorPublish(msg)
    \/ ErrorRecv

SpecStreams == Init /\ [][NextStreams]_vars

----------------------------------------------------------------------------
(* Claims about the stream consumers, under SpecStreams.                   *)

Stores == <<node_stats, actors, logs, errors>>

BadActorMsg(msg) == Len(msg) # 1

BadLogMsg(msg) == Len(msg) # 1 \/ DOMAIN msg[1] # {"ip", "pid", "lines"}

BadErrorMsg(msg) == Len(msg) # 1

HasBad(log, Bad(_)) == \E i \in 1..Len(log) : Bad(log[i])

\* C15: a consumer that takes a message that does not decode or parse leaves
\* every store as it was and goes on consuming; a well-formed message taken
\* after bad ones is applied to the store like any other.
C15_BadMessageSkipped ==
    [][/\ (ActorRecv /\ BadActorMsg(Head(actorChan))) =>
              (Stores' = Stores /\ actorPc' = "live")
       /\ (LogRecv /\ BadLogMsg(Head(logChan))) => Stores' = Stores
       /\ (ErrorRecv /\ BadErrorMsg(Head(errChan))) => Stores' = Stores
       /\ (ActorRecv /\ ~BadActorMsg(Head(actorChan)) /\ HasBad(actorLog, BadActorMsg)) =>
              actors' = MapSet(actors, HexOf(Head(actorChan)[1].actor_id),
                               [actorId |-> HexOf(Head(actorChan)[1].actor_id),
                                state |-> Head(actorChan)[1].state])
       /\ (LogRecv /\ ~BadLogMsg(Head(logChan)) /\ HasBad(logLog, BadLogMsg)) =>
              LET data == Head(logChan)[1]
                  before == IF data.ip \in DOMAIN logs
                               /\ PidText(data.pid) \in DOMAIN logs[data.ip]
                            THEN logs[data.ip][PidText(data.pid)] ELSE <<>>
              IN  /\ data.ip \in DOMAIN logs'
                  /\ PidText(data.pid) \in DOMAIN logs'[data.ip]
                  /\ logs'[data.ip][PidText(data.pid)] = before \o data.lines
       /\ (ErrorRecv /\ ~BadErrorMsg(Head(errChan)) /\ HasBad(errLog, BadErrorMsg)
              /\ Head(errChan)[1].error_message = SpecExample) =>
              LET key == <<(<<"10.0.0.5">>), <<"1", "2", "3">>>>
                  before == IF key \in ErrorKeys(errors)
                            THEN errors[key[1]][key[2]] ELSE <<>>
              IN  /\ key \in ErrorKeys(errors')
                  /\ Len(errors'[key[1]][key[2]]) = Len(before) + 1]_vars

\* C15's case: each of the three consumers took a bad message (the log relay
\* both a text that is no JSON and a batch without lines) and then a
\* well-formed one, which is in its store.
C15_Witness ==
    /\ actorLog = <<(<<>>), <<[actor_id |-> <<171>>, state |-> "ALIVE"]>>>>
    /\ actors[<<"a", "b">>].state = "ALIVE"
    /\ Len(logLog) = 3
    /\ logLog[1] = <<>>
    /\ Len(logLog[2]) = 1
    /\ DOMAIN logLog[2][1] = {"ip", "pid"}
    /\ logs = [ip \in {"10.0.0.5"} |-> [pid \in {<<"7">>} |-> <<"a", "b">>]]
    /\ Len(errLog) = 2
    /\ errLog[1] = <<>>
    /\ ErrorKeys(errors) = {<<(<<"10.0.0.5">>), <<"1", "2", "3">>>>}

----------------------------------------------------------------------------
(* Claims about the tasks of run side by side, under SpecRunFair.          *)

Bootstrapping == actorPc # "live"

\* C16: while the actor synchronizer is in its bootstrap, whether waiting for
\* the bulk fetch or backing off after a failure, the other tasks are not held
\* up: a relay holding a message can take it and the poller can take the
\* outcome of its call.  Under fair scheduling, in every run in which the
\* synchronizer never becomes Live, the relays apply every message delivered
\* to them and every poll cycle that started ends.
C16_BootstrapFailureConfined ==
    /\ [](Bootstrapping =>
             /\ logChan # <<>> => ENABLED LogRecv
             /\ errChan # <<>> => ENABLED ErrorRecv
             /\ pollPc = "await" => ENABLED PollStep)
    /\ <>[]Bootstrapping =>
          []<>(logChan = <<>> /\ errChan = <<>> /\ pollPc = "sleep")

\* C16's case: the bulk fetch has failed and the synchronizer is backing off;
\* meanwhile a log batch was stored and a poll cycle stored a node's stats.
C16_Witness ==
    /\ actorPc = "backoff"
    /\ FailedFetches >= 1
    /\ logs # EmptyMap
    /\ node_stats # EmptyMap
    /\ pollPc = "sleep"

----------------------------------------------------------------------------
(* Claims about the memory-info flag, under SpecNodesFlag.                 *)

\* C17: all the requests of one cycle carry the same include_memory_info,
\* the value the flag had when the cycle started (the value of the first
\* request, which is issued in the step that starts the cycle); a change of
\* the flag shows from the next cycle on.
C17_FlagFixedPerCycle ==
    \A i \in 1..Len(issued) :
        issued[i].include_memory_info = issued[1].include_memory_info

----------------------------------------------------------------------------
(* Claims about what a cycle polls, under SpecNodes.                       *)

\* The requests issued by the step: all of `issued` when the step starts a
\* cycle, what was appended otherwise.
NewRequests ==
    IF nCycles' # nCycles THEN {i \in 1..Len(issued')  : TRUE}
    ELSE {i \in 1..Len(issued') : i > Len(issued)}

\* C18: a request is only issued to a peer whose node record is ALIVE at
\* that time; no NodeId gets two requests in one cycle; and an entry of
\* node_stats is only written for the NodeId of the request in flight, which
\* had a handle and an ALIVE record when it was issued in this cycle.
C18_OnlyLivePolledOnce ==
    /\ [](\A i, j \in 1..Len(issued) :
             issued[i].node_id = issued[j].node_id => i = j)
    /\ [][/\ \A i \in NewRequests :
                /\ issued'[i].node_id \in DOMAIN nodes
                /\ nodes[issued'[i].node_id].state = "ALIVE"
                /\ issued'[i].node_id \in DictKeys(stubs)
          /\ \A n \in NodeIds :
                (n \in DOMAIN node_stats' /\
                   (n \notin DOMAIN node_stats \/ node_stats'[n] # node_stats[n]))
                => (pollPc = "await" /\ n = cur /\ n \in IssuedIds)]_vars

----------------------------------------------------------------------------
(* Claims about what is kept, under SpecRun.                               *)

LogKeys(store) ==
    UNION {{<<ip, pid>> : pid \in DOMAIN store[ip]} : ip \in DOMAIN store}

\* Every key of the store is still there after the step and its sequence
\* has its old content as a prefix.
Kept(store, storeAfter) ==
    \A key \in LogKeys(store) :
        /\ key \in LogKeys(storeAfter)
        /\ IsPrefix(store[key[1]][key[2]], storeAfter[key[1]][key[2]])

\* C19: the processing of a ChangeEvent leaves node_stats, the actor map and
\* the log and error stores as they are, the entries of the departed node
\* included; and no step of the collector removes a (host, pid) key of the
\* log or error store or shortens its sequence.
C19_DepartureKeepsData ==
    [][/\ Deliver(FALSE) =>
             /\ node_stats' = node_stats
             /\ actors' = actors
             /\ logs' = logs
             /\ errors' = errors
       /\ Kept(logs, logs')
       /\ Kept(errors, errors')]_vars

\* C19's case: a node was polled, then removed and its removal processed;
\* its stats are still stored, and so is a log batch received before.
C19_Witness ==
    /\ pending = <<>>
    /\ DictKeys(stubs) = {}
    /\ DOMAIN nodes = {}
    /\ DOMAIN node_stats # {}
    /\ LogKeys(logs) # {}

----------------------------------------------------------------------------
(* Claims about appends under interleaving, under SpecRunQuery.            *)

\* The log store after the first n messages of the log channel: for every
\* (host, pid) a batch was decoded for, the lines of its batches in order.
LogsAfter(n) ==
    [ip \in {ip \in LogIps : \E pid \in LogPids, k \in 1..n :
                                IsBatchFor(logLog[k], ip, pid)} |->
        [p \in {PidText(pid) : pid \in {pid \in LogPids : \E k \in 1..n :
                                           IsBatchFor(logLog[k], ip, pid)}} |->
            LinesDelivered(n, ip, CHOOSE pid \in LogPids : PidText(pid) = p)]]

\* The records of the events among the first n messages of the error
\* channels whose text is the specification's example.
RECURSIVE ExampleRecords(_)
ExampleRecords(n) ==
    IF n = 0 THEN <<>>
    ELSE ExampleRecords(n - 1)
            \o (IF Len(errLog[n]) = 1 /\ errLog[n][1].error_message = SpecExample
                THEN <<[message |-> <<"Failure ">>
                                       \o PidIp(<<"1", "2", "3">>, <<"10.0.0.5">>)
                                       \o <<" happened">>,
                        timestamp |-> errLog[n][1].timestamp,
                        type |-> errLog[n][1].type]>>
                ELSE <<>>)

ErrorsAfter(n) ==
    IF ExampleRecords(n) = <<>> THEN EmptyMap
    ELSE [ip \in {<<"10.0.0.5">>} |-> [pid \in {<<"1", "2", "3">>} |-> ExampleRecords(n)]]

\* What a route answers when the store is `store`.
Answer(store, ip, pid) ==
    IF ip \notin DOMAIN store THEN <<"KeyError">>
    ELSE IF pid = NoPid THEN <<"ok", store[ip]>>
    ELSE IF pid \in DOMAIN store[ip] THEN <<"ok", store[ip][pid]>>
    ELSE <<"ok", <<>>>>

Answered ==
    IF response.result.raised # "none" THEN <<"KeyError">>
    ELSE IF response.route = "/node_logs" THEN <<"ok", response.result.logs>>
    ELSE <<"ok", response.result.errors>>

\* C20: whatever the interleaving of the poller, the synchronizer, the
\* relays, the observer and the routes, each store holds every line and
\* record of every message its relay applied, in order, none lost or
\* overwritten; and what a route answered is the store as it was after some
\* whole number of applied messages, never a batch in part.
C20_NoLostAppends ==
    /\ logs = LogsAfter(Len(logLog))
    /\ errors = ErrorsAfter(Len(errLog))
    /\ response.route = "/node_logs" =>
          \E n \in 0..Len(logLog) :
              Answered = Answer(LogsAfter(n), response.ip, response.pid)
    /\ response.route = "/node_errors" =>
          \E n \in 0..Len(errLog) :
              Answered = Answer(ErrorsAfter(n), response.ip, response.pid)

\* C20's case: two batches for one (host, pid) were applied while a poll
\* cycle was suspended at its call, and a route answered with the first batch
\* before the second was appended.
C20_Witness ==
    /\ pollPc = "await"
    /\ logs = [ip \in {"10.0.0.5"} |-> [p \in {<<"7">>} |-> <<"a", "b", "c">>]]
    /\ response.route = "/node_logs"
    /\ response.pid = <<"7">>
    /\ Answered = <<"ok", <<"a", "b">>>>

====
